---------------------------- MODULE Spec2Model ----------------------------
(***************************************************************************)
(* Request execution and orchestration layer of the cars API test client:  *)
(* the Transport Client (Endpoints/base_api.py), the Endpoint Wrappers      *)
(* (Endpoints/cars_api.py, Endpoints/registration_api.py), the Orchestrator *)
(* (Core/api_player.py) and the Result Tracker (Utils/results.py).          *)
(*                                                                         *)
(* One business call is in flight at a time.  A call is started by the     *)
(* action named after the Orchestrator method; the network then answers    *)
(* each attempt (ServerReply): the retry adapter either re-sends, or the    *)
(* attempt is final and the rest of the call (raise_for_status,            *)
(* _handle_error, format_response, _execute_api_call, the Result Tracker)  *)
(* runs to completion in the same step.                                    *)
(***************************************************************************)
EXTENDS Integers, Sequences, FiniteSets, TLC

VARIABLES
    total,      \* Results.total
    passed,     \* Results.passed
    failures,   \* Results.failures, the ordered list of failure messages
    pc,         \* "idle" | "sending": position of the calling thread
    inflight,   \* the request the session is sending (meaningful when pc = "sending")
    calls,      \* number of business calls started so far
    last,       \* record of the last completed call
    threads     \* per thread: its position inside Results.success / failure

vars == <<total, passed, failures, pc, inflight, calls, last, threads>>

\* Number of business calls issued in one test run.
MaxCalls == 2

\* Largest number of entries in a listing the service returns, and largest
\* expected count a verification is called with.
MaxItems == 1

\* Number of threads that call business operations of one Orchestrator.
MaxThreads == 2

----------------------------------------------------------------------------
(* Python values *)

None == [tag |-> "None"]

\* A requests.Response.
Response(status, body) == [tag |-> "Response", status_code |-> status, body |-> body]

\* Outcome of a Python call: it returns a value or raises an exception.
\* status_code and response are the attributes of that name an
\* APIRequestError carries (0 and None: not set).
Return(v) ==
    [kind |-> "return", value |-> v, exc |-> "", status_code |-> 0, response |-> None]
Raise(cls) ==
    [kind |-> "raise", value |-> None, exc |-> cls, status_code |-> 0, response |-> None]
RaiseStatus(cls, status) ==
    [kind |-> "raise", value |-> None, exc |-> cls, status_code |-> status, response |-> None]
\* APIRequestError(message, status_code=status, response=response)
RaiseRequestError(status, response) ==
    [kind |-> "raise", value |-> None, exc |-> "APIRequestError", status_code |-> status,
     response |-> response]

----------------------------------------------------------------------------
(* The service's answers *)

Methods == {"GET", "POST", "PUT", "DELETE"}

\* Status codes the service answers with: success, the statuses the error
\* taxonomy names, one other 4xx (413) and the retryable statuses.
Statuses == {200, 401, 403, 404, 413, 429, 500, 503}

\* A response body.  kind "invalid": not JSON; "array": JSON that is not an
\* object; "object": a JSON object whose `successful` member is true, false or
\* absent and whose `registered_car` member is absent or an object holding
\* successful true/false.  `items` is the length of the list the object
\* carries under the listing key the operation reads (`cars_list`,
\* `registered`), -1 when the object has no such member.
InvalidBody ==
    [kind |-> "invalid", successful |-> "absent", registered_car |-> "absent", items |-> -1]
ArrayBody ==
    [kind |-> "array", successful |-> "absent", registered_car |-> "absent", items |-> -1]
\* The JSON text `null`.
NullBody ==
    [kind |-> "null", successful |-> "absent", registered_car |-> "absent", items |-> -1]
ObjectBodies ==
    [kind : {"object"}, successful : {"true", "false", "absent"},
     registered_car : {"true", "false", "absent"}, items : {-1}]
    \cup [kind : {"object"}, successful : {"true", "false", "absent"},
          registered_car : {"absent"}, items : 0..MaxItems]
Bodies == {InvalidBody, ArrayBody, NullBody} \cup ObjectBodies

\* What the network does with one attempt: the connection cannot be
\* established ("connect": the request never reaches the server), the
\* response does not arrive ("read": read timeout, connection dropped), or a
\* response arrives, with or without a Retry-After header.
\* A Retry-After header is drawn only with the statuses the adapter honours
\* it for (413, 429, 503); the body of an error response is drawn from a body
\* that is not JSON and one that is.
ErrorBodies ==
    {InvalidBody,
     [kind |-> "object", successful |-> "false", registered_car |-> "absent", items |-> -1]}
NetworkEvents ==
    [type : {"connect", "read"}, status : {0}, retry_after : {FALSE}, body : {InvalidBody}]
    \cup [type : {"response"}, status : {200}, retry_after : {FALSE}, body : Bodies]
    \cup [type : {"response"}, status : Statuses \ {200}, retry_after : {FALSE},
          body : ErrorBodies]
    \cup [type : {"response"}, status : {413, 429, 503}, retry_after : {TRUE},
          body : ErrorBodies]

----------------------------------------------------------------------------
(* Transport Client: the retry adapter mounted on the session *)

\* The retry strategy with one retry more than the code configures.
retry_strategy_total4 ==
    [total |-> 4,
     backoff_factor |-> 1,
     status_forcelist |-> {429, 500, 502, 503, 504},
     allowed_methods |-> {"DELETE", "GET", "HEAD", "OPTIONS", "PUT", "TRACE"},
     retry_after_status_codes |-> {413, 429, 503}]

\* The retry strategy with POST among the methods it re-sends.
retry_strategy_with_post ==
    [total |-> 3,
     backoff_factor |-> 1,
     status_forcelist |-> {429, 500, 502, 503, 504},
     allowed_methods |-> {"DELETE", "GET", "HEAD", "OPTIONS", "POST", "PUT", "TRACE"},
     retry_after_status_codes |-> {413, 429, 503}]

\* Retry(total=3, backoff_factor=1, status_forcelist=[429, 500, 502, 503, 504]).
\* The arguments the code does not pass keep the library's defaults:
\* allowed_methods (the idempotent methods; POST is not among them),
\* respect_retry_after_header = True with RETRY_AFTER_STATUS_CODES =
\* {413, 429, 503}, raise_on_status = True.
retry_strategy ==
    [total |-> 3,
     backoff_factor |-> 1,
     status_forcelist |-> {429, 500, 502, 503, 504},
     allowed_methods |-> {"DELETE", "GET", "HEAD", "OPTIONS", "PUT", "TRACE"},
     retry_after_status_codes |-> {413, 429, 503}]

\* Retry.is_retry(method, status_code, has_retry_after), with `left` the
\* remaining value of Retry.total.
is_retry(method, status, has_retry_after, left) ==
    /\ method \in retry_strategy.allowed_methods
    /\ \/ status \in retry_strategy.status_forcelist
       \/ /\ left # 0
          /\ has_retry_after
          /\ status \in retry_strategy.retry_after_status_codes

\* Does the adapter count this attempt against the retry budget
\* (Retry.increment)?  A read error of a non-idempotent method is re-raised
\* at once; a response that is not retryable is returned.
CountsAsRetry(method, ev, left) ==
    CASE ev.type = "connect" -> TRUE
      [] ev.type = "read" -> method \in retry_strategy.allowed_methods
      [] OTHER -> is_retry(method, ev.status, ev.retry_after, left)

\* Retry.is_exhausted() of the Retry object increment() builds: total below 0.
Exhausted(left) == left - 1 < 0

\* What session.request() hands to BaseAPI.request when the attempt answered
\* by `ev` is the final one: the response, or the requests exception raised.
\* Retries exhausted on a connection or read error: ConnectionError; a read
\* error that is not retried: ReadTimeout; retries exhausted on a retryable
\* response: RetryError.  Every one is a RequestException.
SessionResult(method, ev, left) ==
    CASE ev.type = "connect" -> Raise("ConnectionError")
      [] ev.type = "read" /\ CountsAsRetry(method, ev, left) -> Raise("ConnectionError")
      [] ev.type = "read" -> Raise("ReadTimeout")
      [] CountsAsRetry(method, ev, left) -> Raise("RetryError")
      [] OTHER -> Return(Response(ev.status, ev.body))

RequestExceptions == {"ConnectionError", "ReadTimeout", "RetryError"}

----------------------------------------------------------------------------
(* Transport Client: BaseAPI *)

\* requests.Response.__bool__ is Response.ok: true below status 400.  This is
\* the test `if response:` and `if error.response` perform.
ResponseBool(r) == r.tag = "Response" /\ r.status_code < 400

\* Response.raise_for_status(): HTTPError for 4xx and 5xx.
RaisesForStatus(r) == r.status_code >= 400

\* response.json() of a body that is JSON: None for the text `null`.
ResponseJson(body) ==
    IF body.kind = "null" THEN None ELSE [tag |-> "json", body |-> body]

\* The argument `response=error.response.json() if error.response else None`
\* of the APIRequestError _handle_error raises.
ErrorResponseArgument(r) ==
    IF ResponseBool(r) /\ r.body.kind # "invalid" THEN ResponseJson(r.body) ELSE None

\* BaseAPI._handle_error(error, method, url) for an HTTPError carrying
\* response r: the exception it raises.
HandleHTTPError(r) ==
    CASE r.status_code = 401 -> RaiseStatus("APIAuthenticationError", 0)
      [] r.status_code = 403 -> RaiseStatus("APIAuthenticationError", 0)
      [] r.status_code = 404 -> RaiseStatus("APINotFoundError", 0)
      [] r.status_code = 429 -> RaiseStatus("APIRateLimitError", 0)
      [] r.status_code >= 500 -> RaiseRequestError(r.status_code, ErrorResponseArgument(r))
      [] OTHER -> RaiseRequestError(r.status_code, ErrorResponseArgument(r))

\* BaseAPI._handle_error for an exception of class cls that is no HTTPError.
HandleOtherError(cls) ==
    IF cls \in RequestExceptions THEN Raise("APIConnectionError") ELSE Raise("APIError")

\* BaseAPI._handle_error: `sess` is what session.request produced; an
\* HTTPError is raised by raise_for_status on a returned response.
_handle_error(sess) ==
    IF sess.kind = "return" THEN HandleHTTPError(sess.value) ELSE HandleOtherError(sess.exc)

\* BaseAPI.request: (response, None) on success; in the except branch
\* _handle_error runs first and `return None, str(e)` follows it.
request(sess) ==
    IF sess.kind = "return" /\ ~RaisesForStatus(sess.value)
    THEN Return([response |-> sess.value, error |-> None])
    ELSE LET h == _handle_error(sess)
         IN  IF h.kind = "raise" THEN h
             ELSE Return([response |-> None, error |-> [tag |-> "str", of |-> sess.exc]])

\* BaseAPI.format_response(url, response, error).
format_response(url, response, error) ==
    IF ResponseBool(response)
    THEN IF response.body.kind # "invalid"
         THEN [tag |-> "dict", url |-> url,
               response |-> ResponseJson(response.body),
               error |-> None,
               status_code |-> [tag |-> "int", v |-> response.status_code]]
         ELSE [tag |-> "dict", url |-> url,
               response |-> None,
               error |-> [tag |-> "str", of |-> "Invalid JSON response"],
               status_code |-> [tag |-> "int", v |-> response.status_code]]
    ELSE [tag |-> "dict", url |-> url, response |-> None, error |-> error,
          status_code |-> None]


\* BaseAPI._handle_response(response, expected_status); expected_status 0
\* stands for None.  A raise inside `except HTTPError` leaves the try
\* statement; the APIError of the expected-status test is caught by
\* `except Exception` and raised again as APIError; response.json() on a body
\* that is not JSON raises requests' JSONDecodeError, a RequestException.
_handle_response(response, expected_status) ==
    IF RaisesForStatus(response)
    THEN CASE response.status_code = 404 -> Raise("APINotFoundError")
           [] response.status_code = 401 -> Raise("APIAuthenticationError")
           [] response.status_code = 429 -> Raise("APIRateLimitError")
           [] OTHER -> Raise("APIRequestError")
    ELSE IF expected_status # 0 /\ response.status_code # expected_status
         THEN Raise("APIError")
         ELSE IF response.body.kind = "invalid"
              THEN Raise("APIConnectionError")
              ELSE Return(ResponseJson(response.body))

\* BaseAPI._make_async_request(method, endpoint): every exception of the
\* session or of _handle_response is caught by `except Exception` and raised
\* again as APIError.
_make_async_request(sess) ==
    IF sess.kind = "raise" THEN Raise("APIError")
    ELSE LET h == _handle_response(sess.value, 0)
         IN  IF h.kind = "raise" THEN Raise("APIError") ELSE h

----------------------------------------------------------------------------
(* Endpoint Wrappers *)

base_url == "http://base"

\* The Endpoint Wrapper instances APIPlayer.__init__ creates:
\* CarsAPIEndpoints(url), UserAPIEndpoints(url), RegistrationAPIEndpoints(url).
Wrappers == {"cars_api", "users_api", "registration_api"}

\* BaseAPI.__init__(base_url, timeout=30), which the constructor of wrapper
\* instance `api` runs through super().__init__: a new requests.Session,
\* named here after the instance that created it, with the attribute
\* `timeout` set on it and a new HTTPAdapter mounted for both schemes.
Session(api) ==
    [id |-> api, timeout |-> 30, pool_connections |-> 10, pool_maxsize |-> 10]

\* The `timeout` argument of Session.request(method, url, **kwargs): the
\* keyword argument of that name, None when the caller passes none.  The
\* session has no default for it: an attribute named timeout is not read.
RequestTimeout(kwargs) ==
    IF "timeout" \in DOMAIN kwargs THEN kwargs.timeout ELSE None

\* BaseAPI.build_url(endpoint, suffix)
build_url(endpoint, suffix) == base_url \o "/" \o endpoint \o suffix

CarNames == {"figo"}

\* Each wrapper: the HTTP verb it uses, the URL it builds, and whether it
\* reads response.text before formatting.
cars_api_add_car ==
    [api |-> "cars_api", method |-> "POST", url |-> build_url("cars", "/add"), reads_text |-> FALSE]
cars_api_get_cars ==
    [api |-> "cars_api", method |-> "GET", url |-> build_url("cars", ""), reads_text |-> TRUE]
cars_api_get_car ==
    [api |-> "cars_api", method |-> "GET", url |-> build_url("cars", "/find"), reads_text |-> TRUE]
cars_api_update_car(car_name) ==
    [api |-> "cars_api", method |-> "PUT", url |-> build_url("cars", "/update/" \o car_name), reads_text |-> FALSE]
cars_api_remove_car(car_name) ==
    [api |-> "cars_api", method |-> "DELETE", url |-> build_url("cars", "/remove/" \o car_name), reads_text |-> FALSE]
cars_api_get_cars_async ==
    [api |-> "cars_api", method |-> "GET", url |-> build_url("cars", ""), reads_text |-> FALSE]
cars_api_add_car_async ==
    [api |-> "cars_api", method |-> "POST", url |-> build_url("cars", "/add"), reads_text |-> FALSE]
cars_api_get_car_async ==
    [api |-> "cars_api", method |-> "GET", url |-> build_url("cars", "/find"), reads_text |-> FALSE]
registration_api_register_car ==
    [api |-> "registration_api", method |-> "POST", url |-> build_url("register", "/car"), reads_text |-> FALSE]
registration_api_get_registered_cars ==
    [api |-> "registration_api", method |-> "GET", url |-> build_url("register", ""), reads_text |-> FALSE]
registration_api_delete_registered_car ==
    [api |-> "registration_api", method |-> "DELETE", url |-> build_url("register", "/car/delete"), reads_text |-> FALSE]
registration_api_get_registered_cars_async ==
    [api |-> "registration_api", method |-> "GET", url |-> build_url("register", "/list"), reads_text |-> FALSE]
\* CarsAPI.reset_app_state posts to base_url + "/reset"; it reads
\* response.text only under `if response:`.
cars_api_reset_app_state ==
    [api |-> "cars_api", method |-> "POST", url |-> base_url \o "/reset", reads_text |-> FALSE]
users_api_get_user_list ==
    [api |-> "users_api", method |-> "GET", url |-> build_url("users", ""), reads_text |-> FALSE]

\* The body every wrapper shares: `response, error = self.<verb>(url, ...)`,
\* for get_cars and get_car `logger.info(response.text)` (an AttributeError on
\* None), then `return self.format_response(url, response, error)`.
EndpointCall(ep, sess) ==
    LET r == request(sess)
    IN  IF r.kind = "raise" THEN r
        ELSE IF ep.reads_text /\ r.value.response.tag = "None"
             THEN Raise("AttributeError")
             ELSE Return(format_response(ep.url, r.value.response, r.value.error))

----------------------------------------------------------------------------
(* Result Tracker: Utils/results.py.  t = [total, passed, failures] *)

\* success counting the pass and not the test.
success_passed_only(t, message) == [t EXCEPT !.passed = @ + 1]

\* Results.success(message)
success(t, message) == [t EXCEPT !.total = @ + 1, !.passed = @ + 1]

\* failure putting the message in front of the list.
failure_prepending(t, message) ==
    [t EXCEPT !.total = @ + 1, !.failures = <<message>> \o @]

\* Results.failure(message)
failure(t, message) ==
    [t EXCEPT !.total = @ + 1, !.failures = Append(@, message)]

\* Results.get_fail_count()
get_fail_count(t) == t.total - t.passed

----------------------------------------------------------------------------
(* Orchestrator: Core/api_player.py *)

\* _execute_api_call deciding success by the HTTP status alone, as the
\* asynchronous operations do.
_execute_api_call_by_status(operation_name, api, t) ==
    IF api.kind = "raise" THEN [out |-> api, tracker |-> t]
    ELSE LET response_data == api.value.response
         IN  IF response_data.tag = "None" \/ response_data.body.kind # "object"
             THEN [out |-> Raise("AttributeError"), tracker |-> t]
             ELSE LET result_flag == api.value.status_code.v = 200
                  IN  [out |-> Return([flag |-> result_flag, data |-> response_data]),
                       tracker |-> IF result_flag
                                   THEN success(t, operation_name)
                                   ELSE failure(t, operation_name)]

\* APIPlayer._execute_api_call(operation_name, api_lambda).  `api` is the
\* outcome of api_lambda(), t the Result Tracker.  response.get('response', {})
\* is the envelope's `response` member (the key is always present, so None
\* when the wrapper stored None); `.get("successful", False)` needs a dict:
\* None and a JSON array have no `get` (AttributeError).
_execute_api_call(operation_name, api, t) ==
    IF api.kind = "raise" THEN [out |-> api, tracker |-> t]
    ELSE LET response_data == api.value.response
         IN  IF response_data.tag = "None" \/ response_data.body.kind # "object"
             THEN [out |-> Raise("AttributeError"), tracker |-> t]
             ELSE LET result_flag == response_data.body.successful = "true"
                  IN  [out |-> Return([flag |-> result_flag, data |-> response_data]),
                       tracker |-> IF result_flag
                                   THEN success(t, operation_name)
                                   ELSE failure(t, operation_name)]

\* register_car keeping the flag of the general predicate.
register_car_result_general(api, t) == _execute_api_call("register_car", api, t)

\* APIPlayer.register_car: after _execute_api_call, the flag is read again
\* from response.get("registered_car", {}).get("successful", False).
register_car_result(api, t) ==
    LET e == _execute_api_call("register_car", api, t)
    IN  IF e.out.kind = "raise" THEN e
        ELSE [out |-> Return([flag |-> e.out.value.data.body.registered_car = "true",
                              data |-> e.out.value.data]),
              tracker |-> e.tracker]

\* A Python str and a Python int.
PyStr(text) == [tag |-> "str", of |-> text]
PyInt(n) == [tag |-> "int", v |-> n]

\* Truth value of an Optional[str]: None and the empty string are false.
Truthy(x) == x.tag = "str" /\ x.of # ""

\* d.get(key, default) on a dict modelled as a record (`tag` is not a key).
Get(d, key, default) == IF key \in DOMAIN d \ {"tag"} THEN d[key] ELSE default

\* len(response.get(<listing key>, [])) on a JSON object.
ListLen(body) == IF body.items = -1 THEN 0 ELSE body.items

\* APIPlayer.set_auth_details(username, password): the Base64 text of
\* "username:password", which is never empty.
set_auth_details(username, password) ==
    PyStr("b64(" \o username \o ":" \o password \o ")")

\* set_header_details testing `auth_details is not None`.
set_header_details_not_none(auth_details) ==
    IF auth_details.tag # "None"
    THEN {<<"Authorization", "Basic " \o auth_details.of>>}
    ELSE {<<"content-type", "application/json">>}

\* APIPlayer.set_header_details(auth_details): `if auth_details:`.  A dict
\* is the set of its (key, value) pairs.
set_header_details(auth_details) ==
    IF Truthy(auth_details)
    THEN {<<"Authorization", "Basic " \o auth_details.of>>}
    ELSE {<<"content-type", "application/json">>}

\* The auth_details an operation is called with: None, the empty string, or
\* a token made by set_auth_details.
AuthDetails == {None, PyStr(""), set_auth_details("user", "pass")}

\* The auth_details the test suite passes: none, or a token made from a
\* user name and a password.
Credentials == {None, set_auth_details("user", "pass")}

\* get_registered_cars taking the length of `registered` whatever the flag.
get_registered_cars_result_ungated(api, count_only, t) ==
    LET e == _execute_api_call("get_registered_cars", api, t)
    IN  IF e.out.kind = "raise" \/ ~count_only THEN e
        ELSE [out |-> Return([flag |-> e.out.value.flag,
                              data |-> PyInt(ListLen(e.out.value.data.body))]),
              tracker |-> e.tracker]

\* APIPlayer.get_registered_cars(auth_details, count_only).
get_registered_cars_result(api, count_only, t) ==
    LET e == _execute_api_call("get_registered_cars", api, t)
    IN  IF e.out.kind = "raise" \/ ~count_only THEN e
        ELSE LET success_ == e.out.value.flag
                 count == IF success_ THEN ListLen(e.out.value.data.body) ELSE 0
             IN  [out |-> Return([flag |-> success_, data |-> PyInt(count)]),
                  tracker |-> e.tracker]

\* APIPlayer.get_car_count: `_, response = self.get_cars(auth_details)` and
\* the length of response.get('cars_list', []).
get_car_count_result(api, t) ==
    LET e == _execute_api_call("get_cars", api, t)
    IN  IF e.out.kind = "raise" THEN e
        ELSE [out |-> Return(PyInt(ListLen(e.out.value.data.body))), tracker |-> e.tracker]

\* verify_car_count returning the comparison without recording it.
verify_car_count_result_unrecorded(api, expected_count, t) ==
    LET c == get_car_count_result(api, t)
    IN  IF c.out.kind = "raise" THEN c
        ELSE [out |-> Return([flag |-> c.out.value.v = expected_count,
                              data |-> PyInt(c.out.value.v)]),
              tracker |-> c.tracker]

\* APIPlayer.verify_car_count(expected_count, auth_details).
verify_car_count_result(api, expected_count, t) ==
    LET c == get_car_count_result(api, t)
    IN  IF c.out.kind = "raise" THEN c
        ELSE LET actual_count == c.out.value.v
                 result_flag == actual_count = expected_count
             IN  [out |-> Return([flag |-> result_flag, data |-> PyInt(actual_count)]),
                  tracker |-> IF result_flag
                              THEN success(c.tracker, "verify_car_count")
                              ELSE failure(c.tracker, "verify_car_count")]

\* APIPlayer.verify_registration_count(expected_count, auth_details):
\* actual_count = self.get_registered_cars(auth_details, count_only=True)[1].
verify_registration_count_result(api, expected_count, t) ==
    LET g == get_registered_cars_result(api, TRUE, t)
    IN  IF g.out.kind = "raise" THEN g
        ELSE LET actual_count == g.out.value.data.v
                 result_flag == actual_count = expected_count
             IN  [out |-> Return([flag |-> result_flag, data |-> PyInt(actual_count)]),
                  tracker |-> IF result_flag
                              THEN success(g.tracker, "verify_registration_count")
                              ELSE failure(g.tracker, "verify_registration_count")]

\* An operation that counts its call as a passed test.
Untracked_counting(out, t) == [out |-> out, tracker |-> success(t, "call")]

\* An operation whose body calls neither success nor failure: its outcome,
\* and the Result Tracker as it was.
Untracked(out, t) == [out |-> out, tracker |-> t]

\* reset_app_state without its try/except.
reset_app_state_result_uncaught(api) == api

\* APIPlayer.reset_app_state: the wrapper's envelope, or {"error": str(e)}
\* for any exception.
reset_app_state_result(api) ==
    IF api.kind = "raise"
    THEN Return([tag |-> "dict", error |-> PyStr(api.exc)])
    ELSE Return(api.value)

\* get_user_list with `except Exception`.
get_user_list_result_broad(api) ==
    IF api.kind = "raise"
    THEN Return([flag |-> FALSE, data |-> [tag |-> "dict"]])
    ELSE Return([flag |-> TRUE, data |-> api.value])

\* APIPlayer.get_user_list: (True, <the wrapper's envelope>), or (False, {})
\* on `except (TypeError, AttributeError)`; any other exception propagates.
get_user_list_result(api) ==
    IF api.kind = "raise"
    THEN IF api.exc \in {"TypeError", "AttributeError"}
         THEN Return([flag |-> FALSE, data |-> [tag |-> "dict"]])
         ELSE api
    ELSE Return([flag |-> TRUE, data |-> api.value])

\* The error_messages table of check_validation_error.
error_messages(response_code) ==
    CASE response_code = 403 ->
           "403 FORBIDDEN: Authentication successful but no access for non-admin users"
      [] response_code = 200 -> "Successful authentication and access permission"
      [] response_code = 401 ->
           "401 UNAUTHORIZED: Authenticate with proper credentials OR Require Basic Auth"
      [] response_code = 404 -> "404 NOT FOUND: URL not found"

\* check_validation_error taking the flag get_user_list returns for the
\* whole test.
check_validation_error_result_flag_only(api) ==
    LET g == get_user_list_result(api)
        response_code ==
            CASE g.kind = "return" -> IF g.value.flag THEN 200 ELSE 403
              [] g.exc = "APIAuthenticationError" -> 401
              [] g.exc = "APINotFoundError" -> 404
              [] OTHER -> 0
    IN  IF response_code = 0
        THEN Return([tag |-> "dict", result_flag |-> FALSE, msg |-> g.exc])
        ELSE Return([tag |-> "dict", result_flag |-> response_code = 200,
                     msg |-> error_messages(response_code)])

\* APIPlayer.check_validation_error(auth_details).  `result` is what
\* get_user_list returned, the wrapper's envelope, and the test is
\* `success and result.get('successful', False)`.  response_code 0 stands for
\* the `except Exception` branch, which returns str(e) as the message.
check_validation_error_result(api) ==
    LET g == get_user_list_result(api)
        response_code ==
            CASE g.kind = "return" ->
                   IF g.value.flag /\ Get(g.value.data, "successful", FALSE) THEN 200 ELSE 403
              [] g.exc = "APIAuthenticationError" -> 401
              [] g.exc = "APINotFoundError" -> 404
              [] OTHER -> 0
    IN  IF response_code = 0
        THEN Return([tag |-> "dict", result_flag |-> FALSE, msg |-> g.exc])
        ELSE Return([tag |-> "dict", result_flag |-> response_code = 200,
                     msg |-> error_messages(response_code)])

\* `response.status_code`, an attribute access: the envelope is a dict, which
\* has keys and no such attribute.
AttrStatusCode(obj) ==
    IF obj.tag = "Response" THEN Return(obj.status_code) ELSE Raise("AttributeError")

\* The body the four async_* operations share: await the async wrapper, then
\* result_flag = response.status_code == 200 and return response.json().
AsyncOperation(api) ==
    IF api.kind = "raise" THEN api
    ELSE LET sc == AttrStatusCode(api.value)
         IN  IF sc.kind = "raise" THEN sc
             ELSE Return([flag |-> sc.value = 200,
                          data |-> [tag |-> "json", body |-> api.value.body]])

\* Operations that are _execute_api_call and nothing else.
GeneralOps ==
    {"get_cars", "get_car", "add_car", "update_car", "remove_car",
     "get_registered_cars", "delete_registered_car"}

\* The arguments of an operation besides the car: the expected count of a
\* verification, count_only of get_registered_cars, and auth_details.
NoArgs == [expected_count |-> 0, count_only |-> FALSE, auth_details |-> None]

AsyncOps ==
    {"async_get_cars", "async_get_car", "async_add_car", "async_get_registered_cars"}

\* The synchronous operation an asynchronous one is the counterpart of.
SyncCounterpart(op) ==
    CASE op = "async_get_cars" -> "get_cars"
      [] op = "async_get_car" -> "get_car"
      [] op = "async_add_car" -> "add_car"
      [] op = "async_get_registered_cars" -> "get_registered_cars"

\* The wrapper a synchronous operation calls (the car name is fixed here: it
\* only enters the URL).
SyncEndpoint(op) ==
    CASE op = "get_cars" -> cars_api_get_cars
      [] op = "get_car" -> cars_api_get_car
      [] op = "add_car" -> cars_api_add_car
      [] op = "update_car" -> cars_api_update_car("figo")
      [] op = "remove_car" -> cars_api_remove_car("figo")
      [] op = "register_car" -> registration_api_register_car
      [] op = "get_registered_cars" -> registration_api_get_registered_cars
      [] op = "delete_registered_car" -> registration_api_delete_registered_car

\* The code that runs once session.request has produced `sess` for the call
\* `op` sent through wrapper `ep`: the result of the call and the Result
\* Tracker after it.
Finish(op, ep, args, sess, t) ==
    CASE op = "get_registered_cars" ->
           get_registered_cars_result(EndpointCall(ep, sess), args.count_only, t)
      [] op \in GeneralOps -> _execute_api_call(op, EndpointCall(ep, sess), t)
      [] op = "register_car" -> register_car_result(EndpointCall(ep, sess), t)
      [] op \in AsyncOps -> [out |-> AsyncOperation(EndpointCall(ep, sess)), tracker |-> t]
      [] op = "get_car_count" -> get_car_count_result(EndpointCall(ep, sess), t)
      [] op = "verify_car_count" ->
           verify_car_count_result(EndpointCall(ep, sess), args.expected_count, t)
      [] op = "verify_registration_count" ->
           verify_registration_count_result(EndpointCall(ep, sess), args.expected_count, t)
      [] op = "reset_app_state" ->
           Untracked(reset_app_state_result(EndpointCall(ep, sess)), t)
      [] op = "get_user_list" ->
           Untracked(get_user_list_result(EndpointCall(ep, sess)), t)
      [] op = "check_validation_error" ->
           Untracked(check_validation_error_result(EndpointCall(ep, sess)), t)
      [] OTHER -> [out |-> _make_async_request(sess), tracker |-> t]

----------------------------------------------------------------------------
(* State machine *)

NoCall == [op |-> "none"]
NoRequest == [op |-> "none"]

Tracker == [total |-> total, passed |-> passed, failures |-> failures]

Threads == 1..MaxThreads

\* A thread outside success and failure: `at` is its position, `tmp` the
\* value it has loaded, successes and failures the recordings it has
\* completed.
IdleThread == [at |-> "idle", tmp |-> 0, successes |-> 0, failures |-> 0]

Init ==
    /\ total = 0
    /\ passed = 0
    /\ failures = <<>>
    /\ pc = "idle"
    /\ inflight = NoRequest
    /\ calls = 0
    /\ last = NoCall
    /\ threads = [t \in Threads |-> IdleThread]

\* The calling thread enters operation `op` with arguments `args`, which
\* builds its headers and sends its request through wrapper `ep`; the first
\* attempt goes out.
StartCallArgs(op, ep, args) ==
    /\ pc = "idle"
    /\ calls < MaxCalls
    /\ pc' = "sending"
    /\ calls' = calls + 1
    /\ inflight' = [op |-> op, ep |-> ep, args |-> args,
                    headers |-> set_header_details(args.auth_details),
                    session |-> Session(ep.api),
                    timeout |-> RequestTimeout(
                                    [headers |-> set_header_details(args.auth_details)]),
                    attempts |-> 1,
                    left |-> retry_strategy.total,
                    reached |-> FALSE, all_forcelist |-> TRUE,
                    prev |-> [type |-> "none", status |-> 0, retry_after |-> FALSE]]
    /\ last' = NoCall
    /\ UNCHANGED <<total, passed, failures, threads>>

\* An operation called with auth_details left at its default, None.
StartCall(op, ep) == StartCallArgs(op, ep, NoArgs)

get_cars == StartCall("get_cars", cars_api_get_cars)
get_car == StartCall("get_car", cars_api_get_car)
add_car == StartCall("add_car", cars_api_add_car)
register_car == StartCall("register_car", registration_api_register_car)
update_car == \E car_name \in CarNames : StartCall("update_car", cars_api_update_car(car_name))
remove_car == \E car_name \in CarNames : StartCall("remove_car", cars_api_remove_car(car_name))
\* get_registered_cars with count_only left at its default, False.
get_registered_cars == StartCall("get_registered_cars", registration_api_get_registered_cars)
delete_registered_car ==
    StartCall("delete_registered_car", registration_api_delete_registered_car)
async_get_cars == StartCall("async_get_cars", cars_api_get_cars_async)
async_get_car == StartCall("async_get_car", cars_api_get_car_async)
async_add_car == StartCall("async_add_car", cars_api_add_car_async)
async_get_registered_cars ==
    StartCall("async_get_registered_cars", registration_api_get_registered_cars_async)
make_async_request ==
    \E method \in Methods :
        StartCall("_make_async_request",
                  [api |-> "cars_api", method |-> method, url |-> base_url \o "/" \o "cars", reads_text |-> FALSE])

reset_app_state == StartCall("reset_app_state", cars_api_reset_app_state)
get_user_list == StartCall("get_user_list", users_api_get_user_list)
check_validation_error ==
    \E auth_details \in Credentials :
        StartCallArgs("check_validation_error", users_api_get_user_list,
                      [NoArgs EXCEPT !.auth_details = auth_details])
\* get_registered_cars(auth_details, count_only=True)
get_registered_cars_count_only ==
    StartCallArgs("get_registered_cars", registration_api_get_registered_cars,
                  [NoArgs EXCEPT !.count_only = TRUE])
get_car_count == StartCall("get_car_count", cars_api_get_cars)
verify_car_count ==
    \E expected_count \in 0..MaxItems :
        StartCallArgs("verify_car_count", cars_api_get_cars,
                      [NoArgs EXCEPT !.expected_count = expected_count])
verify_registration_count ==
    \E expected_count \in 0..MaxItems :
        StartCallArgs("verify_registration_count", registration_api_get_registered_cars,
                      [NoArgs EXCEPT !.expected_count = expected_count])

\* Results.log_result(is_success, success_msg, failure_msg), called on the
\* Result Tracker directly.
log_result ==
    /\ pc = "idle"
    /\ calls < MaxCalls
    /\ calls' = calls + 1
    /\ \E is_success \in BOOLEAN :
          LET t == IF is_success THEN success(Tracker, "log_result")
                   ELSE failure(Tracker, "log_result")
          IN  /\ total' = t.total
              /\ passed' = t.passed
              /\ failures' = t.failures
              /\ last' = [op |-> "log_result", is_success |-> is_success,
                          before |-> Tracker]
    /\ UNCHANGED <<pc, inflight, threads>>

\* What is remembered of the answer to the attempt before the outstanding one.
Summary(ev) == [type |-> ev.type, status |-> ev.status, retry_after |-> ev.retry_after]

\* The network answers the outstanding attempt and the retry adapter sends
\* the request again (HTTPConnectionPool.urlopen: increment, sleep, urlopen).
Resend(ev) ==
    /\ pc = "sending"
    /\ CountsAsRetry(inflight.ep.method, ev, inflight.left)
    /\ ~Exhausted(inflight.left)
    /\ inflight' = [inflight EXCEPT
                      !.attempts = @ + 1,
                      !.left = @ - 1,
                      !.reached = @ \/ ev.type # "connect",
                      !.all_forcelist = @ /\ ev.type = "response"
                                          /\ ev.status \in retry_strategy.status_forcelist,
                      !.prev = Summary(ev)]
    /\ UNCHANGED <<total, passed, failures, pc, calls, last, threads>>

\* The network answers the outstanding attempt and it is the final one: the
\* session returns or raises, and the call runs to its end.
Complete(ev) ==
    /\ pc = "sending"
    /\ ~(CountsAsRetry(inflight.ep.method, ev, inflight.left) /\ ~Exhausted(inflight.left))
    /\ LET sess == SessionResult(inflight.ep.method, ev, inflight.left)
           fin == Finish(inflight.op, inflight.ep, inflight.args, sess, Tracker)
       IN  /\ total' = fin.tracker.total
           /\ passed' = fin.tracker.passed
           /\ failures' = fin.tracker.failures
           /\ last' = [op |-> inflight.op,
                       args |-> inflight.args,
                       headers |-> inflight.headers,
                       method |-> inflight.ep.method,
                       url |-> inflight.ep.url,
                       attempts |-> inflight.attempts,
                       reached |-> inflight.reached \/ ev.type # "connect",
                       final |-> ev,
                       sess |-> sess,
                       req |-> IF inflight.op = "_make_async_request"
                               THEN Return(None) ELSE request(sess),
                       api |-> IF inflight.op = "_make_async_request"
                               THEN Return(None) ELSE EndpointCall(inflight.ep, sess),
                       inner |-> IF inflight.op = "_make_async_request" /\ sess.kind = "return"
                                 THEN _handle_response(sess.value, 0) ELSE Return(None),
                       out |-> fin.out,
                       before |-> Tracker]
    /\ pc' = "idle"
    /\ inflight' = NoRequest
    /\ UNCHANGED <<calls, threads>>

ServerReply == \E ev \in NetworkEvents : Resend(ev) \/ Complete(ev)

Next ==
    \/ get_cars
    \/ get_car
    \/ add_car
    \/ register_car
    \/ update_car
    \/ remove_car
    \/ get_registered_cars
    \/ delete_registered_car
    \/ async_get_cars
    \/ async_get_car
    \/ async_add_car
    \/ async_get_registered_cars
    \/ make_async_request
    \/ ServerReply

\* A test run of the create/read/update/delete, registration and
\* asynchronous operations.
Spec == Init /\ [][Next]_vars


----------------------------------------------------------------------------
(* Direct calls of the Transport Client's pure routines *)

PyResponses == {Response(st, b) : st \in Statuses, b \in Bodies}

\* What BaseAPI.request can be given by the session in its except branch: an
\* HTTPError carrying a 4xx/5xx response, a RequestException, or any other
\* exception.
RaisedErrors ==
    {Return(r) : r \in {x \in PyResponses : RaisesForStatus(x)}}
    \cup {Raise(cls) : cls \in RequestExceptions \cup {"ValueError"}}

\* format_response(url, response, error) called with any response object or
\* None, and any error text or None.
call_format_response ==
    /\ \E response \in PyResponses \cup {None},
          error \in {None, [tag |-> "str", of |-> "ConnectionError"]} :
          last' = [op |-> "format_response", response |-> response, error |-> error,
                   envelope |-> format_response(base_url, response, error)]
    /\ UNCHANGED <<total, passed, failures, pc, inflight, calls, threads>>

\* _handle_error(error, method, url) called with any error.
call_handle_error ==
    /\ \E error \in RaisedErrors :
          last' = [op |-> "_handle_error", error |-> error, out |-> _handle_error(error)]
    /\ UNCHANGED <<total, passed, failures, pc, inflight, calls, threads>>

\* _handle_response(response, expected_status) called with any response.
call_handle_response ==
    /\ \E response \in PyResponses, expected_status \in {0, 200} :
          last' = [op |-> "_handle_response", response |-> response,
                   expected_status |-> expected_status,
                   out |-> _handle_response(response, expected_status)]
    /\ UNCHANGED <<total, passed, failures, pc, inflight, calls, threads>>

\* set_header_details(auth_details) called with any Optional[str].
call_set_header_details ==
    /\ pc = "idle"
    /\ \E auth_details \in AuthDetails :
          last' = [op |-> "set_header_details", auth_details |-> auth_details,
                   out |-> set_header_details(auth_details)]
    /\ UNCHANGED <<total, passed, failures, pc, inflight, calls, threads>>

\* set_auth_details(username, password) called with any credentials.
call_set_auth_details ==
    /\ pc = "idle"
    /\ \E username \in {"", "user"}, password \in {"", "pass"} :
          last' = [op |-> "set_auth_details", username |-> username, password |-> password,
                   out |-> set_auth_details(username, password)]
    /\ UNCHANGED <<total, passed, failures, pc, inflight, calls, threads>>

NextPure ==
    \/ call_format_response
    \/ call_handle_error
    \/ call_handle_response
    \/ call_set_header_details
    \/ call_set_auth_details

PureSpec == Init /\ [][NextPure]_vars

NextSuite ==
    \/ reset_app_state
    \/ get_user_list
    \/ check_validation_error
    \/ get_registered_cars_count_only
    \/ get_car_count
    \/ verify_car_count
    \/ verify_registration_count
    \/ log_result
    \/ call_set_auth_details
    \/ call_set_header_details
    \/ ServerReply

\* A test run of the reset, user-list, validation, counting and verification
\* operations and of the Result Tracker's own log_result.
SuiteSpec == Init /\ [][NextSuite]_vars

----------------------------------------------------------------------------
(* Business operations called from several threads on one Orchestrator.     *)
(* What the threads share is the Result Tracker; Results.success and        *)
(* Results.failure take no lock, and `self.total += 1` is a load of the     *)
(* attribute followed by a store.                                           *)

\* Thread t, in a business operation, enters Results.success(message) or
\* Results.failure(message) and logs the message.
thread_enter(t) ==
    /\ threads[t].at = "idle"
    /\ calls < MaxCalls
    /\ calls' = calls + 1
    /\ \E method \in {"success", "failure"} :
          threads' = [threads EXCEPT ![t].at = method \o ":load total"]
    /\ UNCHANGED <<total, passed, failures, pc, inflight, last>>

\* `self.total += 1`, first half: load self.total.
thread_load_total(t) ==
    /\ threads[t].at \in {"success:load total", "failure:load total"}
    /\ threads' = [threads EXCEPT
                     ![t].tmp = total,
                     ![t].at = IF @ = "success:load total"
                               THEN "success:store total" ELSE "failure:store total"]
    /\ UNCHANGED <<total, passed, failures, pc, inflight, calls, last>>

\* `self.total += 1`, second half: store the loaded value plus one.
thread_store_total(t) ==
    /\ threads[t].at \in {"success:store total", "failure:store total"}
    /\ total' = threads[t].tmp + 1
    /\ threads' = [threads EXCEPT
                     ![t].at = IF @ = "success:store total"
                               THEN "success:load passed" ELSE "failure:append"]
    /\ UNCHANGED <<passed, failures, pc, inflight, calls, last>>

\* `self.passed += 1`, first half.
thread_load_passed(t) ==
    /\ threads[t].at = "success:load passed"
    /\ threads' = [threads EXCEPT ![t].tmp = passed, ![t].at = "success:store passed"]
    /\ UNCHANGED <<total, passed, failures, pc, inflight, calls, last>>

\* `self.passed += 1`, second half; success returns.
thread_store_passed(t) ==
    /\ threads[t].at = "success:store passed"
    /\ passed' = threads[t].tmp + 1
    /\ threads' = [threads EXCEPT ![t].at = "idle", ![t].tmp = 0, ![t].successes = @ + 1]
    /\ UNCHANGED <<total, failures, pc, inflight, calls, last>>

\* `self.failures.append(fail_msg)`, one step of the interpreter; failure
\* returns.
thread_append(t) ==
    /\ threads[t].at = "failure:append"
    /\ failures' = Append(failures, "failure")
    /\ threads' = [threads EXCEPT ![t].at = "idle", ![t].tmp = 0, ![t].failures = @ + 1]
    /\ UNCHANGED <<total, passed, pc, inflight, calls, last>>

NextThreads ==
    \E t \in Threads :
        \/ thread_enter(t)
        \/ thread_load_total(t)
        \/ thread_store_total(t)
        \/ thread_load_passed(t)
        \/ thread_store_passed(t)
        \/ thread_append(t)

ThreadSpec == Init /\ [][NextThreads]_vars

----------------------------------------------------------------------------
(* Properties *)

\* Operations whose request goes through an Endpoint Wrapper.
WrapperOps == GeneralOps \cup {"register_car"} \cup AsyncOps

\* Operations built on _execute_api_call.
ExecuteOps == GeneralOps \cup {"register_car"}

\* The envelope the wrapper returned in the last call.
Envelope == last.api.value

\* The last call recorded exactly one failure and nothing else.
RecordedOneFailure ==
    /\ total = last.before.total + 1
    /\ passed = last.before.passed
    /\ Len(failures) = Len(last.before.failures) + 1

\* The last call recorded exactly one success and nothing else.
RecordedOneSuccess ==
    /\ total = last.before.total + 1
    /\ passed = last.before.passed + 1
    /\ failures = last.before.failures

\* C1: BaseAPI.request never propagates an exception: for every outcome of
\* the HTTP call it returns (response, None) or (None, error message).
C1_RequestNeverPropagates ==
    last.op \in WrapperOps =>
        /\ last.req.kind = "return"
        /\ \/ last.req.value.response.tag = "Response" /\ last.req.value.error.tag = "None"
           \/ last.req.value.response.tag = "None" /\ last.req.value.error.tag = "str"

\* The underlying request of the last call ended in a non-2xx status, a
\* connection failure or a body that is not JSON.
UnderlyingFailed ==
    \/ last.sess.kind = "raise"
    \/ last.sess.value.status_code >= 300
    \/ last.sess.value.body.kind = "invalid"

\* C2: an operation built on _execute_api_call whose request ends in a
\* non-2xx status, a connection failure or a non-JSON body returns normally
\* with a false flag and records exactly one failure; it does not raise.
C2_FailedCallRecordsOneFailure ==
    (last.op \in ExecuteOps /\ UnderlyingFailed) =>
        /\ last.out.kind = "return"
        /\ last.out.value.flag = FALSE
        /\ RecordedOneFailure

\* The error kind the taxonomy gives an HTTP error status.
Taxonomy(status) ==
    CASE status \in {401, 403} -> "APIAuthenticationError"
      [] status = 404 -> "APINotFoundError"
      [] status = 429 -> "APIRateLimitError"
      [] OTHER -> "APIRequestError"

\* C3: _handle_response and _handle_error map an HTTP error status to the
\* same error kind (401/403 authentication, 404 not found, 429 rate limit,
\* other 4xx/5xx request error), a network-level failure to
\* APIConnectionError and anything else to APIError.
C3_SameClassification ==
    /\ (last.op = "_handle_error" /\ last.error.kind = "return") =>
           last.out.exc = Taxonomy(last.error.value.status_code)
    /\ (last.op = "_handle_error" /\ last.error.kind = "raise") =>
           last.out.exc = IF last.error.exc \in RequestExceptions
                          THEN "APIConnectionError" ELSE "APIError"
    /\ (last.op = "_handle_response" /\ RaisesForStatus(last.response)) =>
           last.out.exc = Taxonomy(last.response.status_code)

\* The half of C3 that is about _handle_error alone.
C3_HandleErrorFollowsTaxonomy ==
    /\ (last.op = "_handle_error" /\ last.error.kind = "return") =>
           last.out.exc = Taxonomy(last.error.value.status_code)
    /\ (last.op = "_handle_error" /\ last.error.kind = "raise") =>
           last.out.exc = IF last.error.exc \in RequestExceptions
                          THEN "APIConnectionError" ELSE "APIError"

\* C4 as stated: a request answered with a retryable status on every attempt
\* is sent at most 3 times in total.
C4_AtMostThreeAttempts ==
    (pc = "sending" /\ inflight.all_forcelist) => inflight.attempts <= 3

\* C4, amended: a request is sent at most 4 times in total, the first attempt
\* and at most 3 retries, whatever the answers are.
C4_AtMostFourAttempts ==
    /\ pc = "sending" => inflight.attempts <= 4
    /\ last.op \in WrapperOps \cup {"_make_async_request"} => last.attempts <= 4

\* The fourth attempt of a request whose three earlier attempts were each
\* answered with a retryable status is outstanding.
C4_Witness_FourthAttempt ==
    pc = "sending" /\ inflight.all_forcelist /\ inflight.attempts = 4

\* A failure status that is not retryable: a 4xx other than 429.
NonRetryable4xx(ev) ==
    ev.type = "response" /\ ev.status >= 400 /\ ev.status < 500 /\ ev.status # 429

\* C5: a request answered with a 4xx other than 429 is attempted once: no
\* retry is issued after that answer, for every HTTP method, and the failure
\* is reported.
C5_NonRetryableAttemptedOnce ==
    /\ (pc = "sending" /\ inflight.attempts > 1) => ~NonRetryable4xx(inflight.prev)
    /\ (last.op \in WrapperOps /\ NonRetryable4xx(last.final) /\ last.attempts = 1) =>
           last.out.kind = "raise" \/ last.out.value.flag = FALSE

\* C6: for a response whose body is not valid JSON, whatever its status
\* code, format_response returns error "Invalid JSON response", response
\* null and the response's status code.
C6_InvalidJsonEnvelope ==
    (/\ last.op = "format_response"
     /\ last.response.tag = "Response"
     /\ last.response.body.kind = "invalid") =>
        /\ last.envelope.error = [tag |-> "str", of |-> "Invalid JSON response"]
        /\ last.envelope.response.tag = "None"
        /\ last.envelope.status_code = [tag |-> "int", v |-> last.response.status_code]

\* C7: an Endpoint Wrapper call whose request never reaches the server
\* returns an envelope with status_code null, response null and a non-null
\* error.
C7_UnreachedRequestEnvelope ==
    (last.op \in WrapperOps /\ ~last.reached) =>
        /\ last.api.kind = "return"
        /\ Envelope.status_code.tag = "None"
        /\ Envelope.response.tag = "None"
        /\ Envelope.error.tag # "None"

\* C8: for the same server outcome an asynchronous operation yields the
\* result (content and error classification) of its synchronous counterpart.
C8_AsyncMatchesSync ==
    last.op \in AsyncOps =>
        last.out = Finish(SyncCounterpart(last.op), SyncEndpoint(SyncCounterpart(last.op)),
                          NoArgs, last.sess, last.before).out

\* C9: for an operation built on _execute_api_call other than register_car,
\* the returned flag is true iff the envelope has a non-null status code and
\* response.successful is true; the Result Tracker records a success exactly
\* when the flag is true and a failure otherwise.
C9_GeneralSuccessPredicate ==
    (last.op \in GeneralOps /\ last.out.kind = "return") =>
        /\ last.out.value.flag =
             (/\ Envelope.status_code.tag # "None"
              /\ Envelope.response.tag = "json"
              /\ Envelope.response.body.kind = "object"
              /\ Envelope.response.body.successful = "true")
        /\ last.out.value.flag => RecordedOneSuccess
        /\ ~last.out.value.flag => RecordedOneFailure

\* A general operation returned a true flag and recorded a success.
C9_Witness_Success ==
    /\ last.op \in GeneralOps
    /\ last.out.kind = "return"
    /\ last.out.value.flag
    /\ passed = last.before.passed + 1

\* C10: register_car returns true when response.registered_car.successful is
\* true, false when it is false or registered_car is missing; the top-level
\* `successful` member does not influence the flag.
C10_RegistrationFlag ==
    (last.op = "register_car" /\ last.out.kind = "return") =>
        last.out.value.flag = (last.out.value.data.body.registered_car = "true")

\* register_car returned true on a body whose top-level successful is false
\* and whose registered_car.successful is true.
C10_Witness_NestedTrue ==
    /\ last.op = "register_car"
    /\ last.out.kind = "return"
    /\ last.out.value.flag
    /\ last.out.value.data.body.successful = "false"
    /\ last.out.value.data.body.registered_car = "true"

----------------------------------------------------------------------------
(* Properties of the validation, counting and reset operations *)

\* The user-list call of the last check_validation_error succeeded and its
\* body reports successful == true.
UserListSucceeded ==
    /\ last.api.kind = "return"
    /\ last.api.value.response.tag = "json"
    /\ last.api.value.response.body.kind = "object"
    /\ last.api.value.response.body.successful = "true"

\* C11: check_validation_error returns result_flag = true with the message
\* "Successful authentication and access permission" whenever the user-list
\* call succeeds and its body reports successful == true, and result_flag is
\* true in no other case.
C11_ValidationSuccess ==
    last.op = "check_validation_error" =>
        /\ last.out.kind = "return"
        /\ UserListSucceeded =>
             /\ last.out.value.result_flag
             /\ last.out.value.msg = "Successful authentication and access permission"
        /\ last.out.value.result_flag => UserListSucceeded

\* C12: check_validation_error whose user-list call is answered with HTTP 200
\* and a body holding successful: false returns result_flag = false and the
\* "403 FORBIDDEN" message.
C12_ValidationForbidden ==
    /\ last.op = "check_validation_error"
    /\ last.final.type = "response"
    /\ last.final.status = 200
    /\ last.final.body.kind = "object"
    /\ last.final.body.successful = "false"
    => /\ last.out.kind = "return"
       /\ last.out.value.result_flag = FALSE
       /\ last.out.value.msg =
            "403 FORBIDDEN: Authentication successful but no access for non-admin users"

\* check_validation_error called with credentials was answered 200 with
\* successful: false and returned the 403 message.
C12_Witness_Forbidden ==
    /\ last.op = "check_validation_error"
    /\ Truthy(last.args.auth_details)
    /\ <<"Authorization", "Basic b64(user:pass)">> \in last.headers
    /\ last.final.type = "response"
    /\ last.final.status = 200
    /\ last.final.body.kind = "object"
    /\ last.final.body.successful = "false"
    /\ last.out.value.result_flag = FALSE
    /\ last.out.value.msg = error_messages(403)

\* C13: check_validation_error whose user-list call is answered with HTTP 401
\* returns result_flag = false and the "401 UNAUTHORIZED" message: the
\* APIAuthenticationError raised by BaseAPI.request passes through the
\* wrapper and get_user_list and is caught in check_validation_error.
C13_ValidationUnauthorized ==
    /\ last.op = "check_validation_error"
    /\ last.final.type = "response"
    /\ last.final.status = 401
    => /\ last.req.kind = "raise"
       /\ last.req.exc = "APIAuthenticationError"
       /\ last.api = last.req
       /\ get_user_list_result(last.api) = last.req
       /\ last.out.kind = "return"
       /\ last.out.value.result_flag = FALSE
       /\ last.out.value.msg =
            "401 UNAUTHORIZED: Authenticate with proper credentials OR Require Basic Auth"

\* check_validation_error called without credentials was answered 401 and
\* returned the 401 message.
C13_Witness_Unauthorized ==
    /\ last.op = "check_validation_error"
    /\ last.args.auth_details = None
    /\ last.headers = {<<"content-type", "application/json">>}
    /\ last.final.type = "response"
    /\ last.final.status = 401
    /\ last.req.kind = "raise"
    /\ last.out.kind = "return"
    /\ last.out.value.msg = error_messages(401)

\* C14: verify_car_count(expected=N) returns (true, N) iff the length of
\* cars_list in the listing equals N and (false, actual) otherwise, and it
\* raises for no outcome of the listing call.
C14_VerifyCarCount ==
    last.op = "verify_car_count" =>
        /\ last.out.kind = "return"
        /\ last.final.body.kind = "object" =>
             LET actual == IF last.final.body.items = -1 THEN 0 ELSE last.final.body.items
             IN  /\ last.out.value.data.v = actual
                 /\ last.out.value.flag = (actual = last.args.expected_count)

\* The listing call of the last operation returned an envelope holding a JSON
\* object.
ListingReturned ==
    /\ last.api.kind = "return"
    /\ last.api.value.response.tag = "json"
    /\ last.api.value.response.body.kind = "object"

C16_HeaderByNonNull ==
    last.op = "set_header_details" =>
        last.out = IF last.auth_details.tag # "None"
                   THEN {<<"Authorization", "Basic " \o last.auth_details.of>>}
                   ELSE {<<"content-type", "application/json">>}

\* C16: set_header_details returns exactly one of the two header shapes:
\* {Authorization: "Basic " + token} when the token is a non-empty string,
\* {content-type: "application/json"} when it is null or the empty string.
C16_HeaderByTruthiness ==
    last.op = "set_header_details" =>
        /\ Cardinality(last.out) = 1
        /\ last.auth_details.tag = "str" /\ last.auth_details.of # ""
             => last.out = {<<"Authorization", "Basic " \o last.auth_details.of>>}
        /\ last.auth_details.tag = "None"
             => last.out = {<<"content-type", "application/json">>}
        /\ last.auth_details = PyStr("")
             => last.out = {<<"content-type", "application/json">>}

\* set_header_details was called with the empty string and returned the
\* unauthenticated headers.
C16_Witness_EmptyToken ==
    /\ last.op = "set_header_details"
    /\ last.auth_details = PyStr("")
    /\ last.out = {<<"content-type", "application/json">>}

\* One step of the Result Tracker: the counters do not decrease, passed stays
\* within 0..total, and what changed is what a sequence of success and
\* failure calls changes: each added test is one more pass or one more entry
\* at the end of failures.
TrackerStep ==
    /\ total' >= total
    /\ passed' >= passed
    /\ 0 <= passed' /\ passed' <= total'
    /\ Len(failures') >= Len(failures)
    /\ SubSeq(failures', 1, Len(failures)) = failures
    /\ total' - total = (passed' - passed) + (Len(failures') - Len(failures))

\* C17: over any sequence of Orchestrator and Result Tracker operations,
\* total and passed never decrease, 0 <= passed <= total, and the counters
\* change only as success and failure change them.
C17_CountersMonotone ==
    /\ [](0 <= passed /\ passed <= total)
    /\ [][TrackerStep]_vars

\* A run recorded one success and one failure.
C17_Witness_BothRecorded ==
    /\ total = 2
    /\ passed = 1
    /\ Len(failures) = 1

----------------------------------------------------------------------------
(* Properties of register_car's recording and of _make_async_request *)

\* C19: register_car records in the Result Tracker by the flag it returns
\* (registered_car.successful) and not by the general predicate: one success
\* when the flag is true, so that a successful registration adds nothing to
\* failures, and one failure when it is false.
C19_RegisterCarRecordsByFlag ==
    last.op = "register_car" /\ last.out.kind = "return" =>
        /\ last.out.value.flag => RecordedOneSuccess
        /\ ~last.out.value.flag => RecordedOneFailure

\* C20: _make_async_request fails with the error kind of the failure: the
\* taxonomy's kind for an error status, APIConnectionError for a
\* network-level failure.
C20_AsyncErrorKind ==
    last.op = "_make_async_request" =>
        /\ last.sess.kind = "raise"
             => last.out.kind = "raise" /\ last.out.exc = "APIConnectionError"
        /\ last.sess.kind = "return" /\ last.sess.value.status_code >= 400
             => last.out.kind = "raise"
                /\ last.out.exc = Taxonomy(last.sess.value.status_code)

----------------------------------------------------------------------------
(* Properties of the error attributes, the envelope and the session *)

\* C21: an APIRequestError carries the status code of the response it was
\* raised for and, when that response's body is JSON, the parsed body; this
\* holds for the one BaseAPI.request raises (_handle_error) and for the one
\* _handle_response raises.
C21_RequestErrorCarriesStatusAndBody ==
    /\ (last.op \in WrapperOps /\ last.req.kind = "raise"
        /\ last.req.exc = "APIRequestError") =>
           /\ last.req.status_code = last.final.status
           /\ last.final.body.kind = "object" =>
                last.req.response = [tag |-> "json", body |-> last.final.body]
    /\ (last.op = "_make_async_request" /\ last.inner.kind = "raise"
        /\ last.inner.exc = "APIRequestError") =>
           /\ last.inner.status_code = last.final.status
           /\ last.final.body.kind = "object" =>
                last.inner.response = [tag |-> "json", body |-> last.final.body]

\* C22: in an envelope format_response produces, status_code is null only
\* when no response object was given: for a response object of any status
\* it is that response's status.
C22_StatusCodeOfEveryResponse ==
    last.op = "format_response" =>
        /\ last.response.tag = "Response" =>
             last.envelope.status_code = [tag |-> "int", v |-> last.response.status_code]
        /\ last.envelope.status_code.tag = "None" => last.response.tag = "None"

\* C23: in every envelope an Endpoint Wrapper call returns, exactly one of
\* response and error is non-null: response when a JSON body was parsed,
\* error in every other case.
C23_ExactlyOneOfResponseAndError ==
    last.op \in WrapperOps \cup {"reset_app_state", "get_user_list"}
    /\ last.api.kind = "return"
    => /\ (Envelope.response.tag = "None") # (Envelope.error.tag = "None")
       /\ last.final.body.kind # "invalid" =>
            Envelope.response.tag # "None" /\ Envelope.error.tag = "None"
       /\ last.final.body.kind = "invalid" =>
            Envelope.response.tag = "None" /\ Envelope.error.tag # "None"

\* C24: every request sent through a Transport Client carries that client's
\* request timeout (30 seconds), and a request that times out or cannot
\* connect is classified as a connection failure.
C24_EveryRequestCarriesTimeout ==
    /\ pc = "sending" =>
         /\ inflight.timeout.tag = "int"
         /\ inflight.timeout.v = inflight.session.timeout
         /\ inflight.timeout.v = 30
    /\ (last.op \in WrapperOps /\ last.final.type \in {"connect", "read"}) =>
         last.req.kind = "raise" /\ last.req.exc = "APIConnectionError"

\* C25: one add_car call is processed by the server at most once: its POST is
\* sent again only while no attempt has reached the server, so never after an
\* answer (retryable or not) or after a response that was lost on the way.
C25_AddCarReachesServerOnce ==
    (pc = "sending" /\ inflight.op = "add_car" /\ inflight.attempts > 1) =>
        /\ ~inflight.reached
        /\ inflight.prev.type = "connect"

\* add_car was sent again after a failed connection, then reached the server,
\* was answered 500 and was not sent again.
C25_Witness_AnsweredOnce ==
    /\ last.op = "add_car"
    /\ last.method = "POST"
    /\ last.attempts = 2
    /\ last.final.type = "response"
    /\ last.final.status = 500
    /\ last.req.exc = "APIRequestError"

\* C27: every request of a wrapper held by the Orchestrator goes through one
\* connection pool shared by all its wrappers, of at most 10 connections: the
\* session that sends a request is the session of each of the wrappers.
C27_OneSharedPool ==
    pc = "sending" =>
        /\ inflight.session.pool_maxsize = 10
        /\ \A api \in Wrappers : Session(api).id = inflight.session.id

----------------------------------------------------------------------------
(* Properties of the Result Tracker *)

\* Sum of f[1..n].
RECURSIVE SumTo(_, _)
SumTo(f, n) == IF n = 0 THEN 0 ELSE f[n] + SumTo(f, n - 1)

\* C26: when business operations run concurrently against one Orchestrator
\* no Result Tracker update is lost: once all of them have completed, total
\* is the number of recordings made, passed the number of success recordings
\* and failures holds one entry for each failure recording.
C26_NoLostUpdate ==
    (\A t \in Threads : threads[t].at = "idle") =>
        LET successes == SumTo([t \in Threads |-> threads[t].successes], MaxThreads)
            failed == SumTo([t \in Threads |-> threads[t].failures], MaxThreads)
        IN  /\ total = successes + failed
            /\ passed = successes
            /\ Len(failures) = failed

\* C28: after any sequence of success and failure recordings the length of
\* failures is total - passed, so get_fail_count() is the number of recorded
\* failure messages, and failures keeps the messages in recording order: a
\* call leaves the earlier messages in place and adds its own behind them,
\* the listing's before the comparison's.
C28_FailCountIsLengthOfFailures ==
    /\ Len(failures) = total - passed
    /\ get_fail_count(Tracker) = Len(failures)
    /\ "before" \in DOMAIN last =>
         /\ Len(failures) >= Len(last.before.failures)
         /\ SubSeq(failures, 1, Len(last.before.failures)) = last.before.failures
         /\ (last.op = "verify_car_count"
             /\ Len(failures) = Len(last.before.failures) + 2) =>
                SubSeq(failures, Len(failures) - 1, Len(failures))
                    = <<"get_cars", "verify_car_count">>

\* A failed log_result was followed by a verify_car_count that recorded two
\* failures, the listing's and then the comparison's.
C28_Witness_ThreeInOrder ==
    /\ failures = <<"log_result", "get_cars", "verify_car_count">>
    /\ total = 3
    /\ passed = 0

\* C29: a completed call of an operation built directly on _execute_api_call
\* raises total by exactly 1, a completed verify_car_count or
\* verify_registration_count by exactly 2 (the listing and the comparison).
C29_RecordingsPerCall ==
    /\ (last.op \in ExecuteOps /\ last.out.kind = "return") =>
         total = last.before.total + 1
    /\ (last.op \in {"verify_car_count", "verify_registration_count"}
        /\ last.out.kind = "return") =>
         total = last.before.total + 2

\* A verification whose listing reported failure and whose count did not
\* match added two entries to failures.
C29_Witness_TwoFailures ==
    /\ last.op = "verify_registration_count"
    /\ last.out.kind = "return"
    /\ ~last.out.value.flag
    /\ total = last.before.total + 2
    /\ Len(failures) = Len(last.before.failures) + 2

\* The operations that make no recording.
FrameOps ==
    {"reset_app_state", "get_user_list", "check_validation_error",
     "set_auth_details", "set_header_details"}

\* C30: reset_app_state, get_user_list, check_validation_error,
\* set_auth_details and set_header_details leave total, passed and failures
\* unchanged, whether the underlying call succeeds or fails.
C30_FrameOfUntrackedOperations ==
    [][last'.op \in FrameOps => UNCHANGED <<total, passed, failures>>]_vars

\* After one recorded failure, reset_app_state met an error and the tracker
\* is as it was.
C30_Witness_ResetAfterFailure ==
    /\ last.op = "reset_app_state"
    /\ last.api.kind = "raise"
    /\ last.before = Tracker
    /\ total = 1
    /\ Len(failures) = 1

============================================================================
